---------------------------- MODULE Spec2Model ----------------------------
(***************************************************************************)
(* Model of the gcache page allocator: gcache::Page (a bump allocator      *)
(* over one memory-mapped file) and gcache::PageStore (the ordered pool of *)
(* pages with oldest-first eviction and a single file-deletion thread).    *)
(*                                                                         *)
(* Source: gcache/src/gcache_page.cpp, gcache/src/gcache_page_store.cpp.   *)
(* The class declarations (gcache_page.hpp, gcache_page_store.hpp,         *)
(* gcache_bh.hpp, gcache_mem_ops.hpp) are not part of the sources at hand; *)
(* what they define (alignment, header size, nonce width, meta_size,       *)
(* Page::free/discard, PageStore::release, page_cleanup_needed) is         *)
(* modelled from the design document and marked as such below.             *)
(*                                                                         *)
(* Sizes and offsets are counted in units of 8 bytes.  Offsets are         *)
(* relative to mmap_.ptr.  The model is of the release build: assert() is  *)
(* compiled out, and of the default build without GCACHE_DETACH_THREAD.    *)
(***************************************************************************)
EXTENDS Integers, Sequences, FiniteSets

(***************************************************************************)
(* Bounds of the model.                                                    *)
(***************************************************************************)
\* pages created over the lifetime of one PageStore (caps count_)
MaxPages == 3
\* user buffers outstanding at one time in the PageStore
MaxSlots == 2
\* largest size asked of Page::malloc() on the page of PageSpec
MaxPageReq == 4
\* largest value of one unit (8 bytes) of a nonce or of a buffer in NonceSpec
MaxWord == 2

(***************************************************************************)
(* Quantities defined in headers that are not among the sources.           *)
(***************************************************************************)
\* MemOps::ALIGNMENT: 16 bytes
ALIGNMENT == 2
\* sizeof(BufferHeader): 24 bytes
BH_size == 3
\* Page::Nonce::size(): 128 bits
Nonce_size == 2

\* the null pointer, the null page, pthread_t(-1)
NULL == -1

Min(a, b) == IF a < b THEN a ELSE b

\* Page::aligned_size(): round up to a multiple of ALIGNMENT
aligned_size(s) == ((s + ALIGNMENT - 1) \div ALIGNMENT) * ALIGNMENT

\* MemOps::BH_aligned_size(): a buffer header plus s payload bytes, aligned
BH_aligned_size(s) == aligned_size(BH_size + s)

\* Page::meta_size(): the nonce block and the key block of a page
meta_size(enc_key_size) ==
    aligned_size(Nonce_size) + aligned_size(BH_aligned_size(enc_key_size))

(***************************************************************************)
(* gcache::Page.  A page is a record                                       *)
(*   seq    the number in the file name (make_page_name)                   *)
(*   size   mmap_.size                                                     *)
(*   next   next_ - mmap_.ptr                                              *)
(*   space  space_                                                         *)
(*   used   used_                                                          *)
(*   sent   offset of the empty header written by the last close() that is *)
(*          still intact, or NULL                                          *)
(*   nw_off, nw_len  where the last Nonce::write() went and how many bytes *)
(*   head   what the first Nonce_size bytes of the mapping hold:           *)
(*          "nonce", or "data" once a buffer handed out covers them        *)
(*   keys   the keys under which user buffers were allocated in the page   *)
(***************************************************************************)

\* nonce_serial_size(): how much to write to a buffer of buf_size
nonce_serial_size(buf_size) == Min(Nonce_size, buf_size)

\* Nonce::write(ptr, size): the number of bytes written
Nonce_write(buf_size) == nonce_serial_size(buf_size)

\* memcpy(dst, src, n): the first n units of dst are those of src
memcpy(dst, src, n) ==
    [i \in 1..Len(dst) |-> IF i <= n THEN src[i] ELSE dst[i]]

\* Nonce::Nonce(ptr, size): d(), then memcpy(&d, ptr, nonce_serial_size(size))
Nonce_from(ptr, size) ==
    memcpy([i \in 1..Nonce_size |-> 0], ptr, nonce_serial_size(size))

\* Nonce::write() that returns the count and copies nothing
Nonce_write_nothing(d, ptr, size) ==
    [buf |-> ptr, ret |-> nonce_serial_size(size)]

\* Nonce::write(ptr, size) of the nonce d: the buffer afterwards and the
\* value returned
Nonce_write_to(d, ptr, size) ==
    LET write_size == nonce_serial_size(size) IN
    [buf |-> memcpy(ptr, d, write_size), ret |-> write_size]

\* what the head of the mapping holds after Nonce::write(off, buf_size)
HeadAfterWrite(p, off, buf_size) ==
    IF off = 0 /\ Nonce_write(buf_size) = Nonce_size THEN "nonce"
    ELSE IF off < Nonce_size /\ Nonce_write(buf_size) > 0 THEN "data"
    ELSE p.head

\* Page::Page(): map aligned_size(size) bytes, write the nonce at the head
Page_ctor(seq, size) ==
    LET msize      == aligned_size(size)
        nonce_size == aligned_size(Nonce_write(msize))
    IN  [seq    |-> seq,
         size   |-> msize,
         next   |-> 0 + nonce_size,
         space  |-> msize - nonce_size,
         used   |-> 0,
         sent   |-> NULL,
         nw_off |-> 0,
         nw_len |-> Nonce_write(msize),
         head   |-> IF Nonce_write(msize) = Nonce_size THEN "nonce" ELSE "data",
         keys   |-> {}]

\* Page::close(): write an empty header at next_ when there is room for one
Page_close(p) ==
    IF p.space >= BH_size THEN [p EXCEPT !.sent = p.next] ELSE p

\* Page::malloc() that takes the space and leaves next_ where it was
Page_malloc_no_advance(p, size) ==
    LET alloc_size == aligned_size(size) IN
    IF alloc_size <= p.space
    THEN [p   |-> [p EXCEPT !.space = p.space - alloc_size,
                            !.used  = p.used + 1,
                            !.sent  = IF p.sent = p.next THEN NULL ELSE p.sent,
                            !.head  = IF p.next < Nonce_size THEN "data" ELSE p.head],
          ret |-> p.next]
    ELSE [p |-> Page_close(p), ret |-> NULL]

\* Page::malloc(): p is the page afterwards, ret the pointer returned (an
\* offset) or NULL
Page_malloc(p, size) ==
    LET alloc_size == aligned_size(size) IN
    IF alloc_size <= p.space
    THEN [p   |-> [p EXCEPT !.space = p.space - alloc_size,
                            !.next  = p.next + alloc_size,
                            !.used  = p.used + 1,
                            \* the buffer handed out lies over the empty header
                            !.sent  = IF p.sent = p.next THEN NULL ELSE p.sent,
                            \* and over the head of the mapping when next_ was there
                            !.head  = IF p.next < Nonce_size THEN "data" ELSE p.head],
          ret |-> p.next]
    ELSE [p |-> Page_close(p), ret |-> NULL]

\* Page::free()/Page::discard(): one buffer fewer in use
Page_discard(p) == [p EXCEPT !.used = p.used - 1]

\* Page::reset() without the test of used_
Page_reset_unchecked(p) ==
    LET written    == Nonce_write(p.space)
        nonce_size == aligned_size(written)
    IN  [p     |-> [p EXCEPT !.space  = p.size - nonce_size,
                             !.next   = 0 + nonce_size,
                             !.nw_off = p.next,
                             !.nw_len = written,
                             !.head   = HeadAfterWrite(p, p.next, p.space),
                             !.sent   = IF written > 0 /\ p.sent = p.next
                                        THEN NULL ELSE p.sent],
         abort |-> FALSE]

\* Page::reset(): p is the page afterwards, abort whether abort() was called
Page_reset(p) ==
    IF p.used > 0
    THEN [p |-> p, abort |-> TRUE]
    ELSE LET written    == Nonce_write(p.space)
             nonce_size == aligned_size(written)
         IN  [p     |-> [p EXCEPT !.space  = p.size - nonce_size,
                                  !.next   = 0 + nonce_size,
                                  !.nw_off = p.next,
                                  !.nw_len = written,
                                  !.head   = HeadAfterWrite(p, p.next, p.space),
                                  !.sent   = IF written > 0 /\ p.sent = p.next
                                             THEN NULL ELSE p.sent],
              abort |-> FALSE]

(***************************************************************************)
(* gcache::PageStore.                                                      *)
(***************************************************************************)
\* the page_size the store is constructed with unless said otherwise
page_size == 14

\* the keys set_enc_key() is called with; 0 is the empty key of the constructor
Keys == {0, 1}

\* EncKey::size()
key_size(k) == IF k = 0 THEN 0 ELSE 2

\* the request sizes: Limits::assert_size() passed, larger than a buffer header
ReqSizes == {BH_size + 1, BH_size + 3}

VARIABLES
    page_size_,   \* the target page size (fixed by the constructor)
    pages_,       \* the queue of pages, oldest first
    current_,     \* seq of the page current_ points to, or NULL
    total_size_,
    count_,
    enc_key_,
    keep_size_,
    delete_thr_,  \* seq of the file the last thread was created for, or NULL
    running,      \* files whose remove_file thread has not called remove() yet
    removed,      \* files in the order in which remove() was called on them
    evicted,      \* [seq, used] of each page delete_page() took off the queue
    slots,        \* the user buffers not released
    key_page,     \* count_ when the last set_enc_key() that returned was called
    ub,           \* the store dereferenced a null or dangling pointer
    ub_why,       \* which one: "front" (pages_.front() of an empty queue),
                  \* "key" (the null key block), "page" (a page not in the
                  \* queue), or "" when ub is FALSE
    destroyed,    \* ~PageStore() has run
    scripted,     \* whether hist is kept (fixed by the initial state)
    hist,         \* the first calls made on the store, in order
    observe,      \* whether last is kept (fixed by the initial state)
    last,         \* the last operation, when it was a malloc() or realloc()
                  \* that returned NULL or in which new Page(..) threw
    pg,           \* PageSpec: one page on its own
    regions,      \* PageSpec: <<lo, hi>> of each malloc since the last reset, in order
    aborted,      \* PageSpec: abort() was called
    nrt           \* NonceSpec: a nonce d, a buffer buf, and once written and
                  \* read back, the value write() returned (ret) and the
                  \* nonce built from the buffer (back)

store_vars == <<page_size_, pages_, current_, total_size_, count_, enc_key_,
                keep_size_, delete_thr_, running, removed, evicted, slots,
                key_page, ub, ub_why, destroyed, scripted, hist, observe, last>>
page_vars == <<pg, regions, aborted>>
vars == <<store_vars, page_vars, nrt>>

(***************************************************************************)
(* The operations below are functions of a record w holding the fields of  *)
(* the store and of its deletion thread, so that a handler is the          *)
(* composition of the calls it makes:                                      *)
(*   pages, current, total_size, count, delete_thr, running, removed,      *)
(*   evicted, ub    as the variables of the same name                      *)
(*   why            as ub_why                                              *)
(*   thrown         a gu::Exception is propagating                         *)
(*   ret            the value the last call returned                       *)
(*   at             seq of the page the last allocation was made in        *)
(*   cfail          the creation of a page failed                          *)
(* and the inputs of the handler, which are the failures of the system     *)
(* calls it makes:                                                         *)
(*   create_fail    new Page(..) throws (the file cannot be created or     *)
(*                  mapped)                                                *)
(*   fail_in        the pthread_create() call, counted from this one on,   *)
(*                  that fails (0: none)                                   *)
(***************************************************************************)
World(create_fail, fail_at) ==
    [create_fail |-> create_fail, fail_in |-> fail_at,
     pages |-> pages_, current |-> current_, total_size |-> total_size_,
     count |-> count_, delete_thr |-> delete_thr_, running |-> running,
     removed |-> removed, evicted |-> evicted, ub |-> ub, why |-> ub_why,
     thrown |-> FALSE, ret |-> NULL, at |-> NULL, cfail |-> FALSE]

Seqs(pages) == {pages[i].seq : i \in 1..Len(pages)}

HasPage(w, seq) == \E i \in 1..Len(w.pages) : w.pages[i].seq = seq

PageOf(w, seq) == w.pages[CHOOSE i \in 1..Len(w.pages) : w.pages[i].seq = seq]

\* the queue with page p put in the place of the page of the same seq
PutPage(w, p) ==
    [w EXCEPT !.pages = [i \in 1..Len(w.pages) |->
                            IF w.pages[i].seq = p.seq THEN p ELSE w.pages[i]]]

\* pthread_join(delete_thr_): returns once the thread has called remove()
pthread_join(w) ==
    IF w.delete_thr \in w.running
    THEN [w EXCEPT !.running = @ \ {w.delete_thr},
                   !.removed = Append(@, w.delete_thr)]
    ELSE w

\* pthread_create(&delete_thr_, .., remove_file, file_name)
pthread_create(w, file) ==
    IF w.fail_in = 1
    THEN [w EXCEPT !.delete_thr = NULL, !.thrown = TRUE, !.fail_in = 0]
    ELSE [w EXCEPT !.delete_thr = file, !.running = @ \cup {file},
                   !.fail_in = IF @ > 0 THEN @ - 1 ELSE 0]

\* the tail of delete_page(): the front page is deleted whatever its used_
delete_front(w) ==
    LET page == Head(w.pages)
        w1 == [w EXCEPT !.pages      = Tail(@),
                        !.total_size = @ - page.size,
                        !.current    = IF @ = page.seq THEN NULL ELSE @,
                        !.evicted    = Append(@, [seq |-> page.seq,
                                                  used |-> page.used])]
        w2 == IF w1.delete_thr # NULL THEN pthread_join(w1) ELSE w1
        w3 == pthread_create(w2, page.seq)
    IN  [w3 EXCEPT !.ret = TRUE]

\* delete_page() without "if (page->used() > 0) return false"
delete_page_unchecked(w) ==
    IF w.pages = <<>> THEN [w EXCEPT !.ub = TRUE, !.why = "front", !.ret = FALSE]
    ELSE delete_front(w)

\* delete_page() without "total_size_ -= page->size()"
delete_page_keep_total(w) ==
    IF w.pages = <<>> THEN [w EXCEPT !.ub = TRUE, !.why = "front", !.ret = FALSE]
    ELSE IF Head(w.pages).used > 0 THEN [w EXCEPT !.ret = FALSE]
    ELSE [delete_front(w) EXCEPT !.total_size = w.total_size]

\* delete_page() without "if (current_ == page) current_ = 0"
delete_page_keep_current(w) ==
    IF w.pages = <<>> THEN [w EXCEPT !.ub = TRUE, !.why = "front", !.ret = FALSE]
    ELSE IF Head(w.pages).used > 0 THEN [w EXCEPT !.ret = FALSE]
    ELSE [delete_front(w) EXCEPT !.current = w.current]

\* delete_page() without the pthread_join() of the previous thread
delete_page_no_join(w) ==
    IF w.pages = <<>> THEN [w EXCEPT !.ub = TRUE, !.why = "front", !.ret = FALSE]
    ELSE
    LET page == Head(w.pages) IN
    IF page.used > 0 THEN [w EXCEPT !.ret = FALSE]
    ELSE
    LET w1 == [w EXCEPT !.pages      = Tail(@),
                        !.total_size = @ - page.size,
                        !.current    = IF @ = page.seq THEN NULL ELSE @,
                        !.evicted    = Append(@, [seq |-> page.seq,
                                                  used |-> page.used])]
        w3 == pthread_create(w1, page.seq)
    IN  [w3 EXCEPT !.ret = TRUE]

\* PageStore::delete_page(); ret is TRUE when the front page was deleted
delete_page(w) ==
    IF w.pages = <<>> THEN [w EXCEPT !.ub = TRUE, !.why = "front", !.ret = FALSE]
    ELSE
    LET page == Head(w.pages) IN
    IF page.used > 0 THEN [w EXCEPT !.ret = FALSE]
    ELSE
    LET w1 == [w EXCEPT !.pages      = Tail(@),
                        !.total_size = @ - page.size,
                        !.current    = IF @ = page.seq THEN NULL ELSE @,
                        !.evicted    = Append(@, [seq |-> page.seq,
                                                  used |-> page.used])]
        w2 == IF w1.delete_thr # NULL THEN pthread_join(w1) ELSE w1
        w3 == pthread_create(w2, page.seq)
    IN  [w3 EXCEPT !.ret = TRUE]

\* PageStore::page_cleanup_needed()
page_cleanup_needed(w) == w.total_size > keep_size_

\* cleanup() with an if in the place of the while
cleanup_once(w) ==
    IF ~page_cleanup_needed(w) THEN w ELSE delete_page(w)

\* PageStore::cleanup(): while (page_cleanup_needed() && delete_page()) {}
RECURSIVE cleanup(_)
cleanup(w) ==
    IF ~page_cleanup_needed(w) THEN w
    ELSE LET w1 == delete_page(w) IN
         IF w1.thrown \/ w1.ub \/ ~w1.ret THEN w1
         ELSE cleanup(w1)

\* reset() without the test of pages_.size(): while (delete_page()) {}
RECURSIVE reset_no_size_test(_)
reset_no_size_test(w) ==
    LET w1 == delete_page(w) IN
    IF w1.thrown \/ w1.ub \/ ~w1.ret THEN w1
    ELSE reset_no_size_test(w1)

\* PageStore::reset(): while (pages_.size() > 0 && delete_page()) {}
RECURSIVE reset(_)
reset(w) ==
    IF ~(Len(w.pages) > 0) THEN w
    ELSE LET w1 == delete_page(w) IN
         IF w1.thrown \/ w1.ub \/ ~w1.ret THEN w1
         ELSE reset(w1)

\* the loop of ~PageStore(): while (pages_.size() && delete_page()) {}
RECURSIVE dtor_pages(_)
dtor_pages(w) ==
    IF ~(Len(w.pages) > 0) THEN w
    ELSE LET w1 == delete_page(w) IN
         IF w1.thrown \/ w1.ub \/ ~w1.ret THEN w1
         ELSE dtor_pages(w1)

\* ~PageStore() that does not join the last deletion thread
dtor_no_join(w) ==
    [dtor_pages(w) EXCEPT !.thrown = FALSE]

\* PageStore::~PageStore(): the loop, then the join of the last deletion
\* thread; an exception of the loop is caught and skips the join.  The
\* pages left are reported and stay as they are.
dtor(w) ==
    LET w1 == dtor_pages(w) IN
    IF w1.thrown \/ w1.ub THEN [w1 EXCEPT !.thrown = FALSE]
    ELSE IF w1.delete_thr # NULL THEN pthread_join(w1) ELSE w1

\* new_page() that counts the page before it creates it
new_page_count_first(w, size) ==
    IF w.create_fail
    THEN [w EXCEPT !.thrown = TRUE, !.cfail = TRUE, !.count = @ + 1]
    ELSE
    LET page         == Page_ctor(w.count, size)
        key_buf_size == BH_aligned_size(key_size(enc_key_))
        w1 == [w EXCEPT !.pages      = Append(@, page),
                        !.total_size = @ + page.size,
                        !.current    = page.seq,
                        !.count      = @ + 1]
        m  == Page_malloc(page, key_buf_size)
    IN  IF m.ret = NULL
        THEN [PutPage(w1, m.p) EXCEPT !.ub = TRUE, !.why = "key"]
        ELSE PutPage(w1, Page_discard(m.p))

\* PageStore::new_page(size)
new_page(w, size) ==
    IF w.create_fail THEN [w EXCEPT !.thrown = TRUE, !.cfail = TRUE]
    ELSE
    LET page         == Page_ctor(w.count, size)
        key_buf_size == BH_aligned_size(key_size(enc_key_))
        w1 == [w EXCEPT !.pages      = Append(@, page),
                        !.total_size = @ + page.size,
                        !.current    = page.seq,
                        !.count      = @ + 1]
        m  == Page_malloc(page, key_buf_size)
    IN  IF m.ret = NULL
        THEN \* ptr2BH(0) is dereferenced
             [PutPage(w1, m.p) EXCEPT !.ub = TRUE, !.why = "key"]
        ELSE PutPage(w1, Page_discard(m.p))

\* current_->malloc(size) on the store: ret and at are set, the page updated
current_malloc(w, size) ==
    IF ~HasPage(w, w.current)
    THEN [w EXCEPT !.ub = TRUE, !.why = "page", !.ret = NULL, !.at = NULL]
    ELSE LET cur == PageOf(w, w.current)
             m   == Page_malloc(cur, size)
         IN  [PutPage(w, m.p) EXCEPT !.ret = m.ret,
                                     !.at  = IF m.ret = NULL THEN NULL ELSE cur.seq]

\* malloc_new() that creates every page with page_size_
malloc_new_page_size(w, size) ==
    LET w1 == new_page([w EXCEPT !.ret = NULL, !.at = NULL], page_size_)
    IN  IF w1.thrown \/ w1.ub THEN [w1 EXCEPT !.thrown = FALSE]
        ELSE LET w2 == current_malloc(w1, size)
                 w3 == cleanup(w2)
             IN  [w3 EXCEPT !.thrown = FALSE, !.ret = w2.ret, !.at = w2.at]

\* PageStore::malloc_new(size)
malloc_new(w, size) ==
    LET msize         == meta_size(key_size(enc_key_))
        min_page_size == size + msize
        w1 == new_page([w EXCEPT !.ret = NULL, !.at = NULL],
                       IF page_size_ > min_page_size THEN page_size_
                       ELSE min_page_size)
    IN  IF w1.thrown \/ w1.ub THEN [w1 EXCEPT !.thrown = FALSE]
        ELSE LET w2 == current_malloc(w1, size)
                 w3 == cleanup(w2)
             IN  [w3 EXCEPT !.thrown = FALSE, !.ret = w2.ret, !.at = w2.at]

\* PageStore::malloc(size)
malloc(w, size) ==
    IF w.current # NULL
    THEN LET w1 == current_malloc(w, size) IN
         IF w1.ret # NULL \/ w1.ub THEN w1
         ELSE malloc_new(w1, size)
    ELSE malloc_new(w, size)

\* PageStore::release(bh): the owning page has one buffer fewer in use, and a
\* page left without buffers triggers cleanup()
release(w, seq) ==
    IF ~HasPage(w, seq) THEN [w EXCEPT !.ub = TRUE, !.why = "page"]
    ELSE LET w1 == PutPage(w, Page_discard(PageOf(w, seq))) IN
         IF 0 = PageOf(w1, seq).used THEN cleanup(w1) ELSE w1

\* realloc() that releases the old buffer before it looks at ret
realloc_release_first(w, slot, size) ==
    LET w1 == malloc_new(w, size) IN
    [release(w1, slot.page) EXCEPT !.ret = w1.ret, !.at = w1.at]

\* PageStore::realloc(ptr, size); page->realloc() returns NULL
realloc(w, slot, size) ==
    LET w1 == malloc_new(w, size) IN
    IF w1.ret # NULL
    THEN [release(w1, slot.page) EXCEPT !.ret = w1.ret, !.at = w1.at]
    ELSE w1

\* set_enc_key() that only adopts the key
set_enc_key_no_page(w) == w

\* PageStore::set_enc_key(k): the new page (enc_key_ = k follows in the action)
set_enc_key(w) ==
    LET msize == meta_size(key_size(enc_key_)) IN
    new_page(w, IF msize > page_size_ THEN msize ELSE page_size_)


(***************************************************************************)
(* The PageStore as a state machine: one action per operation.             *)
(***************************************************************************)
KeepSizes == {0, page_size}

\* the calls of the scenario of two allocations and two releases
ScenarioCalls == <<"malloc", "malloc", "free", "free">>

\* hist after a call of op that concerned the page numbered seq: the calls
\* are kept up to one more than the scenario has
Hist(op, seq) ==
    IF scripted /\ Len(hist) <= Len(ScenarioCalls)
    THEN Append(hist, [op |-> op, page |-> seq])
    ELSE hist

NoOp == [op |-> "other", null |-> FALSE, cfail |-> FALSE]

\* what last holds after operation op that left the store as w
Observed(op, w) ==
    IF observe /\ (w.ret = NULL \/ w.cfail)
    THEN [op |-> op, null |-> w.ret = NULL, cfail |-> w.cfail]
    ELSE NoOp

\* no nonce under test
NoNonce == [pc |-> "none", d |-> <<>>, buf |-> <<>>, ret |-> 0, back |-> <<>>]

PageInit0 ==
    /\ pg = Page_ctor(0, page_size_)
    /\ regions = <<>>
    /\ aborted = FALSE
    /\ nrt = NoNonce

\* PageStore::PageStore()
StoreInit0 ==
    /\ pages_ = <<>>
    /\ current_ = NULL
    /\ total_size_ = 0
    /\ count_ = 0
    /\ enc_key_ = 0
    /\ delete_thr_ = NULL
    /\ running = {}
    /\ removed = <<>>
    /\ evicted = <<>>
    /\ slots = {}
    /\ key_page = NULL
    /\ ub = FALSE
    /\ ub_why = ""
    /\ destroyed = FALSE
    /\ last = NoOp

Init ==
    /\ StoreInit0
    /\ page_size_ = page_size
    /\ keep_size_ \in KeepSizes
    /\ observe = FALSE
    /\ scripted = FALSE
    /\ hist = <<>>
    /\ PageInit0

\* the store after a handler that left it as w
Commit(w) ==
    /\ ~destroyed
    /\ w.count <= MaxPages
    /\ pages_' = w.pages
    /\ current_' = w.current
    /\ total_size_' = w.total_size
    /\ count_' = w.count
    /\ delete_thr_' = w.delete_thr
    /\ running' = w.running
    /\ removed' = w.removed
    /\ evicted' = w.evicted
    /\ ub' = w.ub
    /\ ub_why' = w.why
    /\ UNCHANGED <<page_size_, keep_size_, observe, scripted, page_vars, nrt>>

\* the pages of w, the page of the allocation just made marked with enc_key_
Keyed(w) ==
    IF w.ret # NULL /\ HasPage(w, w.at)
    THEN PutPage(w, [PageOf(w, w.at) EXCEPT !.keys = @ \cup {enc_key_}])
    ELSE w

\* the buffer malloc() or realloc() just returned: its page and offset, the
\* size asked for, the key in force and the page set_enc_key() last created
\* (key, epoch), and whose payload it holds (origin, len bytes of it)
NewSlot(w, size, origin, len) ==
    [page |-> w.at, off |-> w.ret, size |-> size, key |-> enc_key_,
     epoch |-> key_page, origin |-> origin, len |-> len]

\* the pthread_create() call that fails: none (0), or one of those the
\* handler makes, which are those it makes when none fails and leaves w
FailAt(w) == 0 .. (Len(w.evicted) - Len(evicted))

MallocOp(size, create_fail, fail_at) ==
    \E w \in {Keyed(malloc(World(create_fail, fail_at), size))} :
    /\ ~ub
    /\ Cardinality(slots) < MaxSlots
    /\ Commit(w)
    /\ slots' = IF w.ret = NULL THEN slots
                ELSE slots \cup {NewSlot(w, size, <<w.at, w.ret>>, size - BH_size)}
    /\ last' = Observed("malloc", w)
    /\ hist' = Hist("malloc", w.at)
    /\ UNCHANGED <<enc_key_, key_page, destroyed>>

Malloc ==
    \E size \in ReqSizes :
        \/ MallocOp(size, TRUE, 0)
        \/ \E fail_at \in FailAt(malloc(World(FALSE, 0), size)) :
               MallocOp(size, FALSE, fail_at)

ReallocOp(slot, size, create_fail, fail_at) ==
    \E w \in {Keyed(realloc(World(create_fail, fail_at), slot, size))} :
    LET ptr_size == slot.size - BH_size IN
    /\ ~ub
    /\ Commit(w)
    /\ slots' = IF w.ret = NULL THEN slots
                ELSE (slots \ {slot}) \cup
                     {NewSlot(w, size, slot.origin,
                              IF size > ptr_size THEN ptr_size ELSE size)}
    /\ last' = Observed("realloc", w)
    /\ hist' = Hist("realloc", w.at)
    /\ UNCHANGED <<enc_key_, key_page, destroyed>>

Realloc ==
    \E slot \in slots, size \in ReqSizes :
        \/ ReallocOp(slot, size, TRUE, 0)
        \/ \E fail_at \in FailAt(realloc(World(FALSE, 0), slot, size)) :
               ReallocOp(slot, size, FALSE, fail_at)

\* PageStore::free(bh)/discard(bh) of a buffer handed out earlier
FreeOp(slot, fail_at) ==
    \E w \in {release(World(FALSE, fail_at), slot.page)} :
    /\ ~ub
    /\ Commit(w)
    /\ slots' = slots \ {slot}
    /\ last' = NoOp
    /\ hist' = Hist("free", slot.page)
    /\ UNCHANGED <<enc_key_, key_page, destroyed>>

Free ==
    \E slot \in slots :
        \E fail_at \in FailAt(release(World(FALSE, 0), slot.page)) :
            FreeOp(slot, fail_at)

SetEncKeyOp(k, create_fail) ==
    \E w \in {set_enc_key(World(create_fail, 0))} :
    /\ ~ub
    /\ Commit(w)
    /\ enc_key_' = IF w.thrown THEN enc_key_ ELSE k
    /\ key_page' = IF w.thrown THEN key_page ELSE count_
    /\ last' = NoOp
    /\ hist' = Hist("set_enc_key", NULL)
    /\ UNCHANGED <<slots, destroyed>>

SetEncKey == \E k \in Keys, create_fail \in BOOLEAN : SetEncKeyOp(k, create_fail)

ResetOp(fail_at) ==
    \E w \in {reset(World(FALSE, fail_at))} :
    /\ ~ub
    /\ Commit(w)
    /\ last' = NoOp
    /\ hist' = Hist("reset", NULL)
    /\ UNCHANGED <<enc_key_, key_page, slots, destroyed>>

Reset == \E fail_at \in FailAt(reset(World(FALSE, 0))) : ResetOp(fail_at)

\* remove_file(): the deletion thread calls remove(file_name)
remove_file ==
    \E file \in running :
        /\ running' = running \ {file}
        /\ removed' = Append(removed, file)
        /\ UNCHANGED <<page_size_, pages_, current_, total_size_, count_,
                       enc_key_, keep_size_, delete_thr_, evicted, slots,
                       key_page, ub, ub_why, destroyed, scripted, hist,
                       observe, last, page_vars, nrt>>

Next == Malloc \/ Realloc \/ Free \/ SetEncKey \/ Reset \/ remove_file

\* PageStore::~PageStore()
DestroyOp(fail_at) ==
    \E w \in {dtor(World(FALSE, fail_at))} :
    /\ ~ub
    /\ Commit(w)
    /\ destroyed' = TRUE
    /\ last' = NoOp
    /\ hist' = Hist("dtor", NULL)
    /\ UNCHANGED <<enc_key_, key_page, slots>>

Destroy == \E fail_at \in FailAt(dtor(World(FALSE, 0))) : DestroyOp(fail_at)

Spec == Init /\ [][Next]_vars

\* the store that keeps no drained page, the failure of a malloc() or
\* realloc() being remembered
ObservedInit ==
    /\ StoreInit0
    /\ page_size_ = page_size
    /\ keep_size_ = 0
    /\ observe = TRUE
    /\ scripted = FALSE
    /\ hist = <<>>
    /\ PageInit0

ObservedSpec == ObservedInit /\ [][Next]_vars

\* the store from its construction to its destruction, with a page size so
\* small that the smaller request just fits a page of page_size_ and the
\* larger one needs a page of its own size
SmallPageSize == 5 * ALIGNMENT

LifeInit ==
    /\ StoreInit0
    /\ page_size_ = SmallPageSize
    /\ keep_size_ \in KeepSizes
    /\ observe = FALSE
    /\ scripted = FALSE
    /\ hist = <<>>
    /\ PageInit0

LifeNext == Next \/ Destroy

LifeSpec == LifeInit /\ [][LifeNext]_vars

\* the same, the deletion thread being scheduled: once created it calls
\* remove() and exits
FairLifeSpec == LifeSpec /\ WF_vars(remove_file)

(***************************************************************************)
(* The scenario of the design document: a store with a page size of 4096   *)
(* bytes and a keep size of 0, on which 3000 bytes are allocated and       *)
(* buffers are released.  The calls made are kept in hist.                 *)
(***************************************************************************)
ScenarioPageSize == 4096 \div 8

ScenarioSize == 3000 \div 8

ScenarioInit ==
    /\ StoreInit0
    /\ page_size_ = ScenarioPageSize
    /\ keep_size_ = 0
    /\ observe = FALSE
    /\ scripted = TRUE
    /\ hist = <<>>
    /\ PageInit0

ScenarioMalloc ==
    \E fail_at \in FailAt(malloc(World(FALSE, 0), ScenarioSize)) :
        MallocOp(ScenarioSize, FALSE, fail_at)

ScenarioNext == ScenarioMalloc \/ Free \/ remove_file

ScenarioSpec == ScenarioInit /\ [][ScenarioNext]_vars


(***************************************************************************)
(* One gcache::Page on its own: Page::malloc(), Page::free() and           *)
(* Page::reset() called in any order on a page of any of PgSizes.          *)
(***************************************************************************)
PgSizes == {3 * ALIGNMENT, 4 * ALIGNMENT}

PageInit ==
    /\ StoreInit0
    /\ page_size_ = page_size
    /\ keep_size_ = 0
    /\ observe = FALSE
    /\ scripted = FALSE
    /\ hist = <<>>
    /\ \E size \in PgSizes : pg = Page_ctor(0, size)
    /\ regions = <<>>
    /\ aborted = FALSE
    /\ nrt = NoNonce

PgMallocOp(size) ==
    LET m == Page_malloc(pg, size) IN
    /\ ~aborted
    /\ pg' = m.p
    /\ regions' = IF m.ret = NULL THEN regions
                  ELSE Append(regions, <<m.ret, m.ret + aligned_size(size)>>)
    /\ UNCHANGED <<aborted, store_vars, nrt>>

PgMalloc == \E size \in 1..MaxPageReq : PgMallocOp(size)

PgFree ==
    /\ ~aborted
    /\ pg.used > 0
    /\ pg' = Page_discard(pg)
    /\ UNCHANGED <<regions, aborted, store_vars, nrt>>

PgReset ==
    /\ ~aborted
    /\ pg' = Page_reset(pg).p
    /\ aborted' = Page_reset(pg).abort
    /\ regions' = IF Page_reset(pg).abort THEN regions ELSE <<>>
    /\ UNCHANGED <<store_vars, nrt>>

PageNext == PgMalloc \/ PgFree \/ PgReset

PageSpec == PageInit /\ [][PageNext]_vars

(***************************************************************************)
(* Page::Nonce on its own: a nonce of any value is written to a buffer of  *)
(* any size and contents, and a nonce is built from that buffer.           *)
(***************************************************************************)
Words == 0..MaxWord

Nonces == [1..Nonce_size -> Words]

\* the buffers of up to one unit more than a nonce, holding anything
Buffers == UNION {[1..n -> Words] : n \in 0..(Nonce_size + 1)}

NonceInit ==
    /\ StoreInit0
    /\ page_size_ = page_size
    /\ keep_size_ = 0
    /\ observe = FALSE
    /\ scripted = FALSE
    /\ hist = <<>>
    /\ pg = Page_ctor(0, page_size_)
    /\ regions = <<>>
    /\ aborted = FALSE
    /\ \E d \in Nonces, buf \in Buffers :
          nrt = [pc |-> "made", d |-> d, buf |-> buf, ret |-> 0, back |-> <<>>]

\* nonce.write(ptr, size)
NonceWrite ==
    /\ nrt.pc = "made"
    /\ nrt' = [nrt EXCEPT !.pc  = "written",
                          !.buf = Nonce_write_to(nrt.d, nrt.buf, Len(nrt.buf)).buf,
                          !.ret = Nonce_write_to(nrt.d, nrt.buf, Len(nrt.buf)).ret]
    /\ UNCHANGED <<store_vars, page_vars>>

\* Nonce(ptr, size)
NonceRead ==
    /\ nrt.pc = "written"
    /\ nrt' = [nrt EXCEPT !.pc   = "read",
                          !.back = Nonce_from(nrt.buf, Len(nrt.buf))]
    /\ UNCHANGED <<store_vars, page_vars>>

NonceNext == NonceWrite \/ NonceRead

NonceSpec == NonceInit /\ [][NonceNext]_vars


(***************************************************************************)
(* Properties.                                                             *)
(***************************************************************************)
\* the numbers of the pages of a queue, front to back
Ids(pages) == [i \in 1..Len(pages) |-> pages[i].seq]

\* the place of file f in the order of eviction
EvPos(f) == CHOOSE k \in 1..Len(evicted) : evicted[k].seq = f

Increasing(q) == \A i, j \in 1..Len(q) : i < j => q[i] < q[j]

\* C1: cleanup()/delete_page() take a page off the queue only at its front and
\* only with used = 0: every page taken off had used = 0 when it was, pages
\* leave in the order of their creation, and in every step the pages that
\* stay are those behind the ones that left (a page that stays at the front
\* keeps every newer page in the queue).
C1_EvictOldestDrainedOnly ==
    [][ /\ \A k \in 1..Len(evicted') : evicted'[k].used = 0
        /\ Increasing(Ids(evicted'))
        /\ \A i, j \in 1..Len(pages_) :
              (i < j /\ pages_[i].seq \in Seqs(pages_'))
                  => pages_[j].seq \in Seqs(pages_')
        /\ \A i \in 1..Len(pages_) :
              pages_[i].seq \notin Seqs(pages_')
                  => \E k \in 1..Len(evicted') : evicted'[k].seq = pages_[i].seq
      ]_vars

\* C1: a page was evicted, and now the front page is in use and keeps the
\* drained page behind it in the queue although cleanup is needed
C1_Witness ==
    /\ Len(evicted) >= 1
    /\ Len(pages_) >= 2
    /\ pages_[1].used > 0
    /\ pages_[2].used = 0
    /\ total_size_ > keep_size_

RECURSIVE SumSizes(_)
SumSizes(pages) ==
    IF pages = <<>> THEN 0 ELSE Head(pages).size + SumSizes(Tail(pages))

\* C2: total_size_ is the sum of size() over the pages in the queue, whatever
\* operations ran and whichever page or thread creations failed
C2_TotalSizeIsSum == total_size_ = SumSizes(pages_)

\* C2: pages are in the queue after a deletion whose thread could not be
\* created (the file of an evicted page was never handed to a thread)
C2_Witness ==
    /\ Len(pages_) >= 1
    /\ \E k \in 1..Len(evicted) :
          /\ evicted[k].seq \notin running
          /\ \A i \in 1..Len(removed) : removed[i] # evicted[k].seq

\* C3: the queue is in creation order, no page number is given twice over the
\* lifetime of the store, and current_ is null or the newest page of the queue
C3_QueueOrderedCurrentNewest ==
    /\ Increasing(Ids(evicted) \o Ids(pages_))
    /\ \A i \in 1..Len(pages_) : pages_[i].seq < count_
    /\ \A k \in 1..Len(evicted) : evicted[k].seq < count_
    /\ \/ current_ = NULL
       \/ /\ pages_ # <<>>
          /\ current_ = pages_[Len(pages_)].seq

\* C3: pages were created and deleted, and two of them are in the queue
C3_Witness ==
    /\ Len(evicted) >= 1
    /\ Len(pages_) >= 2
    /\ current_ = pages_[2].seq

\* C4: at most one remove_file thread is running, it is the one delete_thr_
\* names, and the files are removed in the order of eviction
C4_OneDeletionInOrder ==
    /\ Cardinality(running) <= 1
    /\ \A f \in running : f = delete_thr_
    /\ \A i \in 1..Len(removed) : \E k \in 1..Len(evicted) : evicted[k].seq = removed[i]
    /\ \A f \in running : \E k \in 1..Len(evicted) : evicted[k].seq = f
    /\ \A i, j \in 1..Len(removed) : i < j => EvPos(removed[i]) < EvPos(removed[j])
    /\ \A f \in running : \A i \in 1..Len(removed) : EvPos(removed[i]) < EvPos(f)

\* C4: two files were removed and the thread for a third is running
C4_Witness ==
    /\ Len(removed) >= 2
    /\ running # {}

\* C5: the regions Page::malloc() returned since the last reset lie inside
\* the mapping and do not overlap, next_ is within the mapping and space_ is
\* not negative
C5_MallocRegionsDisjoint ==
    /\ \A i \in 1..Len(regions) :
          /\ 0 <= regions[i][1]
          /\ regions[i][1] < regions[i][2]
          /\ regions[i][2] <= pg.size
    /\ \A i, j \in 1..Len(regions) :
          i # j => \/ regions[i][2] <= regions[j][1]
                   \/ regions[j][2] <= regions[i][1]
    /\ pg.next <= pg.size
    /\ pg.space >= 0

\* C5: two regions were returned and the page is full
C5_Witness ==
    /\ Len(regions) >= 2
    /\ pg.space = 0

\* C6: Page::reset() of a page with used = 0 leaves space_ as it was right
\* after construction and the head of the mapping as it was before
C6_ResetRestoresSpace ==
    [][ (PgReset /\ pg.used = 0)
            => /\ pg'.space = Page_ctor(pg.seq, pg.size).space
               /\ pg'.head = pg.head
      ]_vars

\* C7: Page::reset() of a page with used > 0 ends in abort() and leaves the
\* page (next_, space_, the mapped contents) as it was
C7_ResetInUseAborts ==
    [][ (PgReset /\ pg.used > 0) => (aborted' /\ pg' = pg) ]_vars

\* C7: reset() was called on a page in use
C7_Witness ==
    /\ aborted
    /\ pg.used > 0

\* C8: no page holds user buffers allocated under two keys, and a buffer is
\* in a page created by or after the set_enc_key() call that preceded its
\* allocation
C8_PagesSingleKey ==
    /\ \A i \in 1..Len(pages_) : Cardinality(pages_[i].keys) <= 1
    /\ \A s \in slots : s.page >= s.epoch
    /\ \A s, t \in slots : s.page = t.page => s.key = t.key

\* C8: buffers of the old key and of the new key are outstanding, in two pages
C8_Witness ==
    \E s, t \in slots :
        /\ s.key # t.key
        /\ s.epoch # t.epoch
        /\ s.page # t.page

\* the store as the step leaves it, for a handler in which no system call
\* fails (enc_key_ and keep_size_ are those of before the step)
WorldAfter ==
    [World(FALSE, 0) EXCEPT !.pages = pages_', !.current = current_',
                            !.total_size = total_size_', !.count = count_',
                            !.delete_thr = delete_thr_', !.running = running',
                            !.removed = removed', !.evicted = evicted',
                            !.ub = ub', !.why = ub_why']

\* C9: a malloc() or realloc() in which the creation of the page fails
\* returns null without a crash and leaves the queue, current_, total_size_
\* and count_ as they were, and an allocation can succeed afterwards (one
\* does when no system call fails)
C9_CreateFailureIsNull ==
    [][ last'.cfail
            => /\ last'.op \in {"malloc", "realloc"}
               /\ last'.null
               /\ slots' = slots
               /\ ~ub'
               /\ Ids(pages_') = Ids(pages_)
               /\ current_' = current_
               /\ total_size_' = total_size_
               /\ count_' = count_
               /\ UNCHANGED <<enc_key_, keep_size_>>
               /\ \E size \in ReqSizes :
                     /\ malloc(WorldAfter, size).ret # NULL
                     /\ ~malloc(WorldAfter, size).ub
      ]_vars

\* C9: the last operation was a malloc() in which the page could not be
\* created; the current page, closed by it, is still the current page
C9_Witness ==
    /\ last.op = "malloc"
    /\ last.cfail
    /\ \E i \in 1..Len(pages_) :
          /\ pages_[i].seq = current_
          /\ pages_[i].sent = pages_[i].next

\* C10: a realloc() that returns null leaves the old buffer outstanding and
\* as it was, in a page that is still in the queue with the same used_
C10_ReallocNullKeepsOld ==
    [][ (last'.op = "realloc" /\ last'.null)
            => /\ slots # {}
               /\ \A slot \in slots :
                     /\ slot \in slots'
                     /\ \E i \in 1..Len(pages_') :
                           /\ pages_'[i].seq = slot.page
                           /\ \E j \in 1..Len(pages_) : pages_[j] = pages_'[i]
      ]_vars

\* C10: the last operation was a realloc() that returned null
C10_Witness ==
    /\ last.op = "realloc"
    /\ last.null
    /\ slots # {}

\* the calls made so far are those of the scenario up to the n-th: the first
\* allocation was made in page 0 and the second in page 1
ScenarioUpTo(n) ==
    /\ Len(hist) = n
    /\ n >= 2
    /\ \A i \in 1..n : hist[i].op = ScenarioCalls[i]
    /\ hist[1].page = 0
    /\ hist[2].page = 1

C12_NonceRoundTrip ==
    /\ nrt.pc \in {"written", "read"}
           => nrt.ret = IF Len(nrt.buf) >= Nonce_size THEN Nonce_size
                        ELSE Len(nrt.buf)
    /\ nrt.pc = "read"
           => /\ Len(nrt.back) = Nonce_size
              /\ Len(nrt.buf) >= Nonce_size => nrt.back = nrt.d
              /\ \A i \in 1..Nonce_size :
                    nrt.back[i] = IF i <= Len(nrt.buf) THEN nrt.d[i] ELSE 0

\* C12: a nonce was built from a buffer shorter than a nonce, and differs
\* from the original in a unit that did not fit
C12_Witness ==
    /\ nrt.pc = "read"
    /\ Len(nrt.buf) = Nonce_size - 1
    /\ nrt.ret = Nonce_size - 1
    /\ nrt.back # nrt.d
    /\ nrt.d[1] # 0
    /\ nrt.back[1] = nrt.d[1]

\* C13: a page on which Page::malloc() has failed (close() has written the
\* empty header at its cursor) is given no allocation afterwards: its cursor
\* stays where it is for as long as the page is in the queue
C13_ClosedPageNotUsedAgain ==
    [][ \A i \in 1..Len(pages_) :
            pages_[i].sent = pages_[i].next
                => \A j \in 1..Len(pages_') :
                       pages_'[j].seq = pages_[i].seq
                           => /\ pages_'[j].next = pages_[i].next
                              /\ pages_'[j].used <= pages_[i].used
      ]_vars

\* C14: every page of the queue that is not the current page ends in the
\* empty header close() writes: the header is intact at the cursor of the page
C14_RetiredPagesEndInSentinel ==
    \A i \in 1..Len(pages_) :
        pages_[i].seq # current_ => pages_[i].sent = pages_[i].next

\* C15: a malloc() that creates a page creates it with the size
\* max(page_size_, size + meta_size(key size)), aligned, and both allocations
\* made in it succeed: the key block (no null pointer is dereferenced in
\* new_page()) and the request, which is the only buffer of the page and lies
\* right behind the nonce and the key block
C15_NewPageHoldsRequest ==
    [][ (Malloc /\ count_' > count_)
            => /\ ~ub'
               /\ \E s \in slots' \ slots :
                     LET msize == meta_size(key_size(enc_key_)) IN
                     /\ s.page = count_
                     /\ s.off = msize
                     /\ \E j \in 1..Len(pages_') :
                           /\ pages_'[j].seq = count_
                           /\ pages_'[j].size =
                                  aligned_size(IF page_size_ > s.size + msize
                                               THEN page_size_
                                               ELSE s.size + msize)
                           /\ pages_'[j].used = 1
                           /\ pages_'[j].next = msize + aligned_size(s.size)
      ]_vars

\* C15: a buffer fills a page made larger than page_size_ for it, under the
\* key whose key block takes room in the page, and another fills a page of
\* page_size_
C15_Witness ==
    /\ \E s \in slots : \E j \in 1..Len(pages_) :
          /\ pages_[j].seq = s.page
          /\ pages_[j].size > page_size_
          /\ pages_[j].space = 0
          /\ key_size(s.key) > 0
    /\ \E s \in slots : \E j \in 1..Len(pages_) :
          /\ pages_[j].seq = s.page
          /\ pages_[j].size = page_size_
          /\ pages_[j].space = 0

\* C16: reset() and ~PageStore() delete every page with used = 0: the pages
\* they leave in the queue all have used > 0
C16_TeardownDeletesAllDrained ==
    [][ (Reset \/ Destroy)
            => \A j \in 1..Len(pages_') : pages_'[j].used > 0
      ]_vars

\* C17: a realloc() that succeeds (no system call failing) returns the slot
\* malloc() of the new size would return in the same state, the old buffer is
\* released, its page has one buffer fewer in use if it is still in the
\* queue, and min(old payload size, new size) bytes of the payload are kept
C17_ReallocAllocatesAsMalloc ==
    [][ \A slot \in slots, size \in ReqSizes :
            (ReallocOp(slot, size, FALSE, 0) /\ slots' # slots)
                => /\ slot \notin slots'
                   /\ \E s \in slots' \ slots :
                         /\ s.page = malloc(World(FALSE, 0), size).at
                         /\ s.off = malloc(World(FALSE, 0), size).ret
                         /\ s.len = Min(slot.size - BH_size, size)
                   /\ \A j \in 1..Len(pages_') :
                         pages_'[j].seq = slot.page
                             => pages_'[j].used = PageOf(World(FALSE, 0), slot.page).used - 1
      ]_vars


\* C18: Page::reset() of a page with used = 0 writes the nonce at offset 0
\* and leaves next_ right after the aligned nonce, and no region Page::malloc()
\* returns, before or after resets, overlaps the nonce block at the head
C18_ResetKeepsNonceBlock ==
    [][ /\ (PgReset /\ pg.used = 0)
            => /\ pg'.nw_off = 0
               /\ pg'.next = aligned_size(Nonce_size)
        /\ \A i \in 1..Len(regions') : regions'[i][1] >= aligned_size(Nonce_size)
      ]_vars
\* the files remove() was called for
Removed == {removed[i] : i \in 1..Len(removed)}

NoCreateFails ==
    \/ \E size \in ReqSizes, create_fail \in BOOLEAN : MallocOp(size, create_fail, 0)
    \/ \E slot \in slots, size \in ReqSizes, create_fail \in BOOLEAN :
           ReallocOp(slot, size, create_fail, 0)
    \/ \E slot \in slots : FreeOp(slot, 0)
    \/ SetEncKey
    \/ ResetOp(0)
    \/ DestroyOp(0)

C20_DeletePageQueueNotEmpty ==
    /\ ub_why # "front"
    /\ page_cleanup_needed(World(FALSE, 0)) => pages_ # <<>>

\* C20: reset(), cleanup() or ~PageStore() deleted pages up to the last one
\* and stopped at the empty queue
C20_Witness ==
    /\ pages_ = <<>>
    /\ Len(evicted) >= 2
    /\ ~ub
=============================================================================
